---------------------------- MODULE Spec2Model ----------------------------
(***************************************************************************)
(* LUT Merge: the CUBE codec (lut-parser), the LUTRenderer texture cache   *)
(* and the App state (library, active chain, photos, merged-LUT export).   *)
(*                                                                         *)
(* Numbers.  A JavaScript number is modelled as a fixed-point integer      *)
(* counting units of 10^-7 (U units make 1.0), or as the value NaN.  A     *)
(* Float32Array element keeps a 24-bit significand (Fround).  Integers     *)
(* that the code uses as integers (sizes, lengths, indices) are plain.     *)
(*                                                                         *)
(* Text.  A file is a sequence of lines; a line is the sequence of tokens  *)
(* that line.trim().split(/\s+/) yields (the empty sequence for a blank    *)
(* line).  A token is a record: w = "" for a decimal numeral whose value   *)
(* is v, otherwise w is the word (v = 0).  Words carry no quote            *)
(* characters.                                                             *)
(***************************************************************************)
EXTENDS Integers, Sequences, FiniteSets, TLC

(***************************************************************************)
(* Numbers                                                                 *)
(***************************************************************************)
U == 10 ^ 7

NaN == 0 - (2 ^ 30)

IsNaN(x) == x = NaN

Abs(x) == IF x < 0 THEN 0 - x ELSE x

Max(a, b) == IF a > b THEN a ELSE b

Min(a, b) == IF a < b THEN a ELSE b

\* Storing a number in a Float32Array: the nearest value with a 24-bit
\* significand, ties to even.
Fround(x) ==
    IF IsNaN(x) THEN NaN
    ELSE LET a == Abs(x)
             q == IF a < 2 ^ 24 THEN 1
                  ELSE IF a < 2 ^ 25 THEN 2
                  ELSE IF a < 2 ^ 26 THEN 4
                  ELSE IF a < 2 ^ 27 THEN 8
                  ELSE IF a < 2 ^ 28 THEN 16
                  ELSE IF a < 2 ^ 29 THEN 32
                  ELSE 64
             lo == (a \div q) * q
             rem == a - lo
             up == IF 2 * rem > q THEN TRUE
                   ELSE IF 2 * rem < q THEN FALSE
                   ELSE ((a \div q) % 2) = 1
             m == IF up THEN lo + q ELSE lo
         IN  IF x < 0 THEN 0 - m ELSE m

(***************************************************************************)
(* Tokens and lines                                                        *)
(***************************************************************************)
Num(v) == [w |-> "", v |-> v]

Word(s) == [w |-> s, v |-> 0]

\* parts[k] of the code (0-based): the token, or undefined past the end.
Part(parts, k) == IF k + 1 <= Len(parts) THEN parts[k + 1] ELSE Word("undefined")

\* parseFloat: the numeral's value, NaN for anything else.
ParseFloat(tok) == IF tok.w = "" THEN tok.v ELSE NaN

\* parseInt(_, 10): the integer part of the numeral (truncated towards zero).
ParseInt(tok) ==
    IF tok.w # "" THEN NaN
    ELSE IF tok.v < 0 THEN 0 - ((0 - tok.v) \div U) ELSE tok.v \div U

\* String.prototype.toUpperCase on the words the model uses.
ToUpperCase(s) ==
    CASE s = "title" -> "TITLE"
      [] s = "lut_3d_size" -> "LUT_3D_SIZE"
      [] s = "domain_min" -> "DOMAIN_MIN"
      [] s = "domain_max" -> "DOMAIN_MAX"
      [] OTHER -> s

\* toFixed(5): one fraction digit short.
ToFixed5(x) ==
    IF IsNaN(x) THEN Word("NaN")
    ELSE LET a == Abs(x)
             n == (a + 50) \div 100
         IN  Num(IF x < 0 THEN 0 - (n * 100) ELSE n * 100)

\* Number.prototype.toFixed(6): the decimal with six fraction digits nearest
\* to x, ties away from zero; "NaN" for NaN.
ToFixed6(x) ==
    IF IsNaN(x) THEN Word("NaN")
    ELSE LET a == Abs(x)
             n == (a + 5) \div 10
         IN  Num(IF x < 0 THEN 0 - (n * 10) ELSE n * 10)

(***************************************************************************)
(* parseCubeLUT                                                            *)
(***************************************************************************)
\* Cube with one factor of size short.
CubeSquared(size, k) == IF IsNaN(size) THEN NaN ELSE size * size * k

\* size * size * size * k with JavaScript's NaN propagation.
Cube(size, k) == IF IsNaN(size) THEN NaN ELSE size * size * size * k

NoDocument == [title |-> <<>>, size |-> 0, min |-> <<>>, max |-> <<>>, data |-> <<>>]

\* Which branch of the loop body a line takes.
LineKind(line) ==
    IF line = <<>> \/ line[1].w = "#" THEN "skip"
    ELSE LET command == ToUpperCase(line[1].w)
         IN  IF command = "TITLE" THEN "TITLE"
             ELSE IF command = "LUT_3D_SIZE" THEN "LUT_3D_SIZE"
             ELSE IF command = "DOMAIN_MIN" THEN "DOMAIN_MIN"
             ELSE IF command = "DOMAIN_MAX" THEN "DOMAIN_MAX"
             ELSE IF ~IsNaN(ParseFloat(line[1])) THEN "data"
             ELSE "ignored"

\* The last line that takes the given branch (its assignment is the one
\* that stands at the end of the loop), 0 when none does.
LastLine(kinds, kind) ==
    LET at == {i \in 1..Len(kinds) : kinds[i] = kind}
    IN  IF at = {} THEN 0 ELSE CHOOSE i \in at : \A j \in at : j <= i

Triple(parts) ==
    <<ParseFloat(Part(parts, 1)), ParseFloat(Part(parts, 2)), ParseFloat(Part(parts, 3))>>

\* The variables of parseCubeLUT after its loop over the lines.
ParseLines(lines) ==
    LET kinds == [i \in 1..Len(lines) |-> LineKind(lines[i])]
        t == LastLine(kinds, "TITLE")
        s == LastLine(kinds, "LUT_3D_SIZE")
        lo == LastLine(kinds, "DOMAIN_MIN")
        hi == LastLine(kinds, "DOMAIN_MAX")
        rows == SelectSeq(lines, LAMBDA line : LineKind(line) = "data")
    IN  [title |-> IF t = 0 THEN <<>>
                   ELSE [i \in 1..(Len(lines[t]) - 1) |-> lines[t][i + 1].w],
         size |-> IF s = 0 THEN 0 ELSE ParseInt(Part(lines[s], 1)),
         min |-> IF lo = 0 THEN <<0, 0, 0>> ELSE Triple(lines[lo]),
         max |-> IF hi = 0 THEN <<U, U, U>> ELSE Triple(lines[hi]),
         \* data.push(r, g, b, 1.0) for every data row
         data |-> [k \in 1..(4 * Len(rows)) |->
                      LET parts == rows[((k - 1) \div 4) + 1]
                          c == (k - 1) % 4
                      IN  IF c = 3 THEN U ELSE ParseFloat(Part(parts, c))]]

\* The 3-channel branch: rgbaData[i*4+c] = data[i*3+c], alpha 1.0.
ExpandRGB(size, data) ==
    [k \in 1..(size * size * size * 4) |->
        LET i == (k - 1) \div 4
            c == (k - 1) % 4
        IN  IF c = 3 THEN U ELSE Fround(data[i * 3 + c + 1])]

ParseResult(ok, error, e3, e4, got, doc) ==
    [ok |-> ok, error |-> error, expected3 |-> e3, expected4 |-> e4, got |-> got, doc |-> doc]

parseCubeLUT(fileContent) ==
    LET st == ParseLines(fileContent)
        size == st.size
        n == Len(st.data)
    IN  IF size = 0
            THEN ParseResult(FALSE, "Invalid LUT: LUT_3D_SIZE not found", 0, 0, 0, NoDocument)
        ELSE IF IsNaN(size) \/ n # Cube(size, 4)
            THEN IF ~IsNaN(size) /\ n = Cube(size, 3)
                     THEN ParseResult(TRUE, "", 0, 0, 0,
                                      [title |-> st.title, size |-> size, min |-> st.min,
                                       max |-> st.max, data |-> ExpandRGB(size, st.data)])
                 ELSE ParseResult(FALSE, "Data size mismatch", Cube(size, 3), Cube(size, 4),
                                  n, NoDocument)
        ELSE ParseResult(TRUE, "", 0, 0, 0,
                         [title |-> st.title, size |-> size, min |-> st.min, max |-> st.max,
                          data |-> [k \in 1..n |-> Fround(st.data[k])]])

(***************************************************************************)
(* generateCubeLUT                                                         *)
(***************************************************************************)
generateCubeLUT(size, data, title) ==
    << <<Word("#"), Word("Created"), Word("by"), Word("LUT"), Word("Merge")>>,
       <<Word("TITLE")>> \o [i \in 1..Len(title) |-> Word(title[i])],
       <<Word("LUT_3D_SIZE"), Num(size * U)>>,
       <<Word("DOMAIN_MIN"), Num(0), Num(0), Num(0)>>,
       <<Word("DOMAIN_MAX"), Num(U), Num(U), Num(U)>>,
       <<>> >>
    \o [j \in 1..((Len(data) + 3) \div 4) |->
            <<ToFixed6(data[4 * (j - 1) + 1]),
              ToFixed6(data[4 * (j - 1) + 2]),
              ToFixed6(data[4 * (j - 1) + 3])>>]
    \o << <<>> >>

(***************************************************************************)
(* Files a user uploads                                                    *)
(***************************************************************************)
SizeLine(n) == <<Word("LUT_3D_SIZE"), Num(n * U)>>

\* Row i (0-based) of the identity LUT of the given size, red fastest.
IdentityRow(size, i) ==
    <<Num(((i % size) * U) \div (size - 1)),
      Num((((i \div size) % size) * U) \div (size - 1)),
      Num(((i \div (size * size)) * U) \div (size - 1))>>

\* Row i of the inverting LUT.
InvertRow(size, i) ==
    <<Num(U - ((i % size) * U) \div (size - 1)),
      Num(U - (((i \div size) % size) * U) \div (size - 1)),
      Num(U - ((i \div (size * size)) * U) \div (size - 1))>>

FileIdentity == [name |-> "identity.cube",
                 content |-> <<SizeLine(2)>> \o [i \in 1..8 |-> IdentityRow(2, i - 1)]]

FileInvert == [name |-> "invert.cube",
               content |-> <<SizeLine(2)>> \o [i \in 1..8 |-> InvertRow(2, i - 1)]]

FileShort == [name |-> "short.cube",
              content |-> <<SizeLine(2)>> \o [i \in 1..7 |-> IdentityRow(2, i - 1)]]

\* Row i of a LUT that mixes the channels, each axis weighing differently.
TwistRow(size, i) ==
    LET r == i % size
        g == (i \div size) % size
        b == i \div (size * size)
        top == 10 * (size - 1) * (size - 1)
    IN  <<Num(((2 * r + 3 * g + 5 * b) * (size - 1) * U) \div top),
          Num(((10 * (size - 1) - 5 * r + 3 * g + 2 * b) * (size - 1) * U) \div (2 * top)),
          Num(((4 * r * (size - 1) + 6 * g * b) * U) \div top)>>

FileTwist == [name |-> "twist.cube",
              content |-> <<SizeLine(3)>> \o [i \in 1..27 |-> TwistRow(3, i - 1)]]

FileNoSize == [name |-> "nosize.cube", content |-> <<IdentityRow(2, 0)>>]


RECURSIVE SeqsUpTo(_, _)
SeqsUpTo(S, n) ==
    IF n = 0 THEN {<<>>}
    ELSE LET shorter == SeqsUpTo(S, n - 1)
         IN  shorter \cup {Append(q, x) : q \in shorter, x \in S}

\* Intensities a pointer position can ask for: x / barWidth is any real.
IntensityRequests == {0 - (U \div 2), U \div 2, U + (U \div 2)}

(***************************************************************************)
(* State                                                                   *)
(***************************************************************************)
VARIABLES
    state,      \* App.state: photos, currentPhotoIndex, lutLibrary, activeChain
    renderer,   \* LUTRenderer: textureCache, uniforms, baseTexture
    uuids,      \* how many ids uuidv4 has produced, per kind
    uploads,    \* handleLUTUpload calls awaiting file.text(): their remaining files
    loads,      \* setImage loads awaiting the texture loader: their urls
    report,     \* what the last handler reported: "", "alert", "console.error", "TypeError"
    codec,      \* a call of the codec on its own: its input, its position, its output
    export      \* exportMergedLUT: its position in the loops, mergedData, the download

appVars == <<state, renderer, uuids, uploads, loads, report>>

\* The texture bound to an unused slot.
dummyTexture == 0

ChainCapacity == 5

AppInit ==
    /\ state = [photos |-> <<>>, currentPhotoIndex |-> 0 - 1,
                lutLibrary |-> <<>>, activeChain |-> <<>>]
    /\ renderer = [textureCache |-> <<>>,
                   lutTextures |-> [i \in 1..5 |-> dummyTexture],
                   lutIntensities |-> [i \in 1..5 |-> 0],
                   lutCount |-> 0,
                   baseTexture |-> 0,
                   created |-> 0,
                   disposed |-> {}]
    /\ uuids = [lut |-> 0, chain |-> 0, photo |-> 0]
    /\ uploads = <<>>
    /\ loads = <<>>
    /\ report = ""

(***************************************************************************)
(* LUTRenderer                                                             *)
(***************************************************************************)
\* Array.prototype.find on the library: the entries with that id, in order.
FindLUT(lutLibrary, lutId) == SelectSeq(lutLibrary, LAMBDA l : l.id = lutId)

\* CacheLookup constructing a texture on every reference.
CacheLookupAlwaysBuilds(r, lut) ==
    [r EXCEPT !.created = r.created + 1,
              !.textureCache = [i \in DOMAIN r.textureCache \cup {lut.id} |->
                                   IF i = lut.id
                                       THEN [tex |-> r.created + 1, size |-> lut.size,
                                             data |-> lut.data]
                                   ELSE r.textureCache[i]]]

\* The body of the forEach of updateLUTChain for one entry: cache lookup,
\* construction on a miss.
CacheLookup(r, lut) ==
    IF lut.id \in DOMAIN r.textureCache
        THEN r
    ELSE [r EXCEPT !.created = r.created + 1,
                   !.textureCache = [i \in DOMAIN r.textureCache \cup {lut.id} |->
                                        IF i = lut.id
                                            THEN [tex |-> r.created + 1, size |-> lut.size,
                                                  data |-> lut.data]
                                        ELSE r.textureCache[i]]]

RECURSIVE ForEachLUT(_, _, _)
ForEachLUT(r, lutDatas, i) ==
    IF i > Len(lutDatas) THEN r ELSE ForEachLUT(CacheLookup(r, lutDatas[i]), lutDatas, i + 1)

\* updateLUTChain without its slice(0, 5): every entry handed is evaluated.
updateLUTChainNoSlice(r, lutDatas) ==
    LET r1 == ForEachLUT(r, lutDatas, 1)
        n == Max(Len(lutDatas), 5)
    IN  [r1 EXCEPT !.lutTextures = [i \in 1..n |->
                                       IF i <= Len(lutDatas)
                                           THEN r1.textureCache[lutDatas[i].id].tex
                                       ELSE dummyTexture],
                   !.lutIntensities = [i \in 1..n |->
                                          IF i <= Len(lutDatas) THEN lutDatas[i].intensity
                                          ELSE 0],
                   !.lutCount = Min(Len(lutDatas), 5)]

updateLUTChain(r, lutDatas) ==
    LET first == SubSeq(lutDatas, 1, Min(Len(lutDatas), 5))
        r1 == ForEachLUT(r, first, 1)
    IN  [r1 EXCEPT !.lutTextures = [i \in 1..5 |->
                                       IF i <= Len(first)
                                           THEN r1.textureCache[first[i].id].tex
                                       ELSE dummyTexture],
                   !.lutIntensities = [i \in 1..5 |->
                                          IF i <= Len(first) THEN first[i].intensity ELSE 0],
                   !.lutCount = Min(Len(lutDatas), 5)]

\* disposeLUT dropping the whole cache.
disposeLUTClearsCache(r, lutId) ==
    IF lutId \in DOMAIN r.textureCache
        THEN [r EXCEPT !.disposed = r.disposed \cup {r.textureCache[lutId].tex},
                       !.textureCache = <<>>]
    ELSE r

disposeLUT(r, lutId) ==
    IF lutId \in DOMAIN r.textureCache
        THEN [r EXCEPT !.disposed = r.disposed \cup {r.textureCache[lutId].tex},
                       !.textureCache = [i \in DOMAIN r.textureCache \ {lutId} |->
                                            r.textureCache[i]]]
    ELSE r

(***************************************************************************)
(* App                                                                     *)
(***************************************************************************)
\* updateRendererChain dereferences the library entry of every chain item:
\* a missing one is a TypeError, raised before updateLUTChain is called.
ChainThrows(st) ==
    \E i \in 1..Len(st.activeChain) : FindLUT(st.lutLibrary, st.activeChain[i].lutId) = <<>>

ChainData(st) ==
    [i \in 1..Len(st.activeChain) |->
        LET item == st.activeChain[i]
            lut == FindLUT(st.lutLibrary, item.lutId)[1]
        IN  [id |-> lut.id, data |-> lut.data.data, size |-> lut.data.size,
             intensity |-> item.intensity]]

\* The renderer and the report after updateRendererChain on App state st.
updateRendererChain(st, r) ==
    IF ChainThrows(st) THEN [renderer |-> r, report |-> "TypeError"]
    ELSE [renderer |-> updateLUTChain(r, ChainData(st)), report |-> ""]

\* Whether each file of the model parses.
Parses == [f \in {FileIdentity, FileInvert, FileShort, FileNoSize} |-> parseCubeLUT(f.content).ok]

\* How many of the files will be given a LUT id.
Importable(files) == Cardinality({i \in 1..Len(files) : Parses[files[i]]})

\* The same, over the files every call in flight still has to read.
PendingImports ==
    LET RECURSIVE Sum(_)
        Sum(i) == IF i = 0 THEN 0 ELSE Importable(uploads[i]) + Sum(i - 1)
    IN  Sum(Len(uploads))

\* handleLUTUpload up to its first await.
HandleLUTUpload(files) ==
    /\ uploads' = Append(uploads, files)
    /\ report' = ""
    /\ UNCHANGED <<state, renderer, uuids, loads>>

\* The uploads with the first file of call h taken off.
PopHead(ups, h) ==
    IF Tail(ups[h]) = <<>>
        THEN [i \in 1..(Len(ups) - 1) |-> IF i < h THEN ups[i] ELSE ups[i + 1]]
    ELSE [ups EXCEPT ![h] = Tail(ups[h])]

\* UploadFile with the try around the whole loop: a failure ends the call.
UploadFileAbortsOnError(h) ==
    /\ h \in 1..Len(uploads)
    /\ LET file == Head(uploads[h])
           res == parseCubeLUT(file.content)
       IN  IF res.ok
               THEN /\ state' = [state EXCEPT !.lutLibrary =
                                    Append(@, [id |-> uuids.lut + 1, name |-> file.name,
                                               data |-> res.doc])]
                    /\ uuids' = [uuids EXCEPT !.lut = @ + 1]
                    /\ report' = ""
                    /\ uploads' = PopHead(uploads, h)
           ELSE /\ report' = "console.error"
                /\ uploads' = [i \in 1..(Len(uploads) - 1) |->
                                  IF i < h THEN uploads[i] ELSE uploads[i + 1]]
                /\ UNCHANGED <<state, uuids>>
    /\ UNCHANGED <<renderer, loads>>

\* One iteration of the loop of handleLUTUpload, resumed with the file's text.
UploadFile(h) ==
    /\ h \in 1..Len(uploads)
    /\ LET file == Head(uploads[h])
           res == parseCubeLUT(file.content)
       IN  /\ IF res.ok
                  THEN /\ state' = [state EXCEPT !.lutLibrary =
                                       Append(@, [id |-> uuids.lut + 1, name |-> file.name,
                                                  data |-> res.doc])]
                       /\ uuids' = [uuids EXCEPT !.lut = @ + 1]
                       /\ report' = ""
              ELSE /\ report' = "console.error"
                   /\ UNCHANGED <<state, uuids>>
           /\ uploads' = PopHead(uploads, h)
    /\ UNCHANGED <<renderer, loads>>

\* removeLUTFromLibrary without the call of disposeLUT.
RemoveLUTFromLibraryKeepsTexture(id) ==
    /\ FindLUT(state.lutLibrary, id) # <<>>
    /\ LET st == [state EXCEPT
                     !.lutLibrary = SelectSeq(@, LAMBDA lut : lut.id # id),
                     !.activeChain = SelectSeq(@, LAMBDA item : item.lutId # id)]
           upd == updateRendererChain(st, renderer)
       IN  /\ state' = st
           /\ renderer' = upd.renderer
           /\ report' = upd.report
    /\ UNCHANGED <<uuids, uploads, loads>>

RemoveLUTFromLibrary(id) ==
    /\ FindLUT(state.lutLibrary, id) # <<>>
    /\ LET r1 == disposeLUT(renderer, id)
           st == [state EXCEPT
                     !.lutLibrary = SelectSeq(@, LAMBDA lut : lut.id # id),
                     !.activeChain = SelectSeq(@, LAMBDA item : item.lutId # id)]
           upd == updateRendererChain(st, r1)
       IN  /\ state' = st
           /\ renderer' = upd.renderer
           /\ report' = upd.report
    /\ UNCHANGED <<uuids, uploads, loads>>

\* addToChain with the capacity test off by one.
AddToChainOffByOne(lutId) ==
    IF Len(state.activeChain) > 5
        THEN /\ report' = "alert"
             /\ UNCHANGED <<state, renderer, uuids, uploads, loads>>
    ELSE /\ LET st == [state EXCEPT !.activeChain =
                          Append(@, [id |-> uuids.chain + 1, lutId |-> lutId,
                                     intensity |-> U])]
                upd == updateRendererChain(st, renderer)
            IN  /\ state' = st
                /\ renderer' = upd.renderer
                /\ report' = upd.report
         /\ uuids' = [uuids EXCEPT !.chain = @ + 1]
         /\ UNCHANGED <<uploads, loads>>

AddToChain(lutId) ==
    IF Len(state.activeChain) >= 5
        THEN /\ report' = "alert"
             /\ UNCHANGED <<state, renderer, uuids, uploads, loads>>
    ELSE /\ LET st == [state EXCEPT !.activeChain =
                          Append(@, [id |-> uuids.chain + 1, lutId |-> lutId,
                                     intensity |-> U])]
                upd == updateRendererChain(st, renderer)
            IN  /\ state' = st
                /\ renderer' = upd.renderer
                /\ report' = upd.report
         /\ uuids' = [uuids EXCEPT !.chain = @ + 1]
         /\ UNCHANGED <<uploads, loads>>

RemoveFromChain(chainId) ==
    /\ LET st == [state EXCEPT !.activeChain = SelectSeq(@, LAMBDA item : item.id # chainId)]
           upd == updateRendererChain(st, renderer)
       IN  /\ state' = st
           /\ renderer' = upd.renderer
           /\ report' = upd.report
    /\ UNCHANGED <<uuids, uploads, loads>>

\* updateIntensity storing the request as it comes.
UpdateIntensityUnclamped(chainId, intensity) ==
    IF \E i \in 1..Len(state.activeChain) : state.activeChain[i].id = chainId
        THEN /\ LET st == [state EXCEPT !.activeChain =
                              [i \in 1..Len(@) |->
                                  IF @[i].id = chainId
                                      THEN [@[i] EXCEPT !.intensity = intensity]
                                  ELSE @[i]]]
                    upd == updateRendererChain(st, renderer)
                IN  /\ state' = st
                    /\ renderer' = upd.renderer
                    /\ report' = upd.report
             /\ UNCHANGED <<uuids, uploads, loads>>
    ELSE /\ report' = ""
         /\ UNCHANGED <<state, renderer, uuids, uploads, loads>>

UpdateIntensity(chainId, intensity) ==
    IF \E i \in 1..Len(state.activeChain) : state.activeChain[i].id = chainId
        THEN /\ LET st == [state EXCEPT !.activeChain =
                              [i \in 1..Len(@) |->
                                  IF @[i].id = chainId
                                      THEN [@[i] EXCEPT !.intensity = Max(0, Min(U, intensity))]
                                  ELSE @[i]]]
                    upd == updateRendererChain(st, renderer)
                IN  /\ state' = st
                    /\ renderer' = upd.renderer
                    /\ report' = upd.report
             /\ UNCHANGED <<uuids, uploads, loads>>
    ELSE /\ report' = ""
         /\ UNCHANGED <<state, renderer, uuids, uploads, loads>>


\* selectPhoto up to its await: the index is stored and the load is started.
SelectPhotoStart(st, index) ==
    [state |-> [st EXCEPT !.currentPhotoIndex = index],
     loads |-> Append(loads, st.photos[index + 1].url)]

\* processPhotos: n files are appended, then the last photo is selected.
ProcessPhotos(n) ==
    /\ LET st == [state EXCEPT !.photos =
                     @ \o [i \in 1..n |-> [id |-> uuids.photo + i, url |-> uuids.photo + i]]]
       IN  IF Len(st.photos) > 0
               THEN LET sel == SelectPhotoStart(st, Len(st.photos) - 1)
                    IN  /\ state' = sel.state
                        /\ loads' = sel.loads
           ELSE /\ state' = st
                /\ UNCHANGED loads
    /\ uuids' = [uuids EXCEPT !.photo = @ + n]
    /\ report' = ""
    /\ UNCHANGED <<renderer, uploads>>

\* A click on the thumbnail of photo index.
SelectPhoto(index) ==
    /\ index \in 0..(Len(state.photos) - 1)
    /\ LET sel == SelectPhotoStart(state, index)
       IN  /\ state' = sel.state
           /\ loads' = sel.loads
    /\ report' = ""
    /\ UNCHANGED <<renderer, uuids, uploads>>

RemoveLoad(k) == [i \in 1..(Len(loads) - 1) |-> IF i < k THEN loads[i] ELSE loads[i + 1]]

\* The texture loader's callback of setImage, and the rest of selectPhoto
\* that the resolved promise resumes.
SetImageLoaded(k) ==
    /\ k \in 1..Len(loads)
    /\ LET r1 == [renderer EXCEPT !.baseTexture = loads[k]]
           upd == updateRendererChain(state, r1)
       IN  /\ renderer' = upd.renderer
           /\ report' = upd.report
    /\ loads' = RemoveLoad(k)
    /\ UNCHANGED <<state, uuids, uploads>>

\* A load of an object URL that removePhoto has revoked never calls back.
SetImageLost(k) ==
    /\ k \in 1..Len(loads)
    /\ \A i \in 1..Len(state.photos) : state.photos[i].url # loads[k]
    /\ loads' = RemoveLoad(k)
    /\ report' = ""
    /\ UNCHANGED <<state, renderer, uuids, uploads>>

RemovePhoto(id) ==
    LET found == {i \in 1..Len(state.photos) : state.photos[i].id = id}
    IN  IF found = {}
            THEN /\ report' = ""
                 /\ UNCHANGED <<state, renderer, uuids, uploads, loads>>
        ELSE LET index == (CHOOSE i \in found : \A j \in found : i <= j) - 1
                 photos == [i \in 1..(Len(state.photos) - 1) |->
                               IF i < index + 1 THEN state.photos[i] ELSE state.photos[i + 1]]
                 st == [state EXCEPT !.photos = photos]
             IN  /\ IF state.currentPhotoIndex = index
                        THEN IF Len(photos) > 0
                                 THEN LET sel == SelectPhotoStart(st, 0)
                                      IN  /\ state' = sel.state
                                          /\ loads' = sel.loads
                             ELSE /\ state' = [st EXCEPT !.currentPhotoIndex = 0 - 1]
                                  /\ UNCHANGED loads
                    ELSE IF state.currentPhotoIndex > index
                        THEN /\ state' = [st EXCEPT !.currentPhotoIndex = @ - 1]
                             /\ UNCHANGED loads
                    ELSE /\ state' = st
                         /\ UNCHANGED loads
                 /\ report' = ""
                 /\ UNCHANGED <<renderer, uuids, uploads>>


(***************************************************************************)
(* sampleLUT and exportMergedLUT                                           *)
(***************************************************************************)
\* a * w for a weight w in [0,1]: the product of two numbers of the model,
\* in units again, rounded down; computed in parts that stay within 32 bits.
Product(a, w) ==
    LET ah == a \div 10000
        al == a % 10000
        wh == w \div 10000
        wl == w % 10000
        x == ah * wl + al * wh
    IN  10 * ah * wh + (x \div 1000) + (((x % 1000) * 10000 + al * wl) \div U)

Add(a, b) == IF IsNaN(a) \/ IsNaN(b) THEN NaN ELSE a + b

\* data[i] of a Float32Array (0-based): undefined past the end, and
\* undefined in arithmetic is NaN.
Read(data, i) == IF IsNaN(i) \/ i < 0 \/ i >= Len(data) THEN NaN ELSE data[i + 1]

\* The clamp without its margin: the coordinate may reach size - 1.
GridCoordinateClampAtLast(size, x) ==
    IF IsNaN(x) THEN NaN ELSE Max(0, Min(size * U - U, x * (size - 1)))

\* The clamp without its lower end.
GridCoordinateNoLowerClamp(size, x) ==
    IF IsNaN(x) THEN NaN ELSE Min(size * U - U - (U \div 10000), x * (size - 1))

\* Math.max(0, Math.min(size - 1.0001, x * (size - 1)))
GridCoordinate(size, x) ==
    IF IsNaN(x) THEN NaN ELSE Max(0, Min(size * U - U - (U \div 10000), x * (size - 1)))

\* Math.floor
Floor(x) == IF IsNaN(x) THEN NaN ELSE x \div U

getIdx(size, ir, ig, ib) ==
    IF IsNaN(ir) \/ IsNaN(ig) \/ IsNaN(ib) THEN NaN ELSE (ir + ig * size + ib * size * size) * 4

\* v * (1 - d) + c * d
Lerp(v, c, d) ==
    IF IsNaN(v) \/ IsNaN(c) \/ IsNaN(d) THEN NaN ELSE Product(v, U - d) + Product(c, d)

\* v.map((v, i) => v * (1 - d) + c[i] * d)
Lerp3(v, c, d) == <<Lerp(v[1], c[1], d), Lerp(v[2], c[2], d), Lerp(v[3], c[3], d)>>

\* [data[idx], data[idx + 1], data[idx + 2]]
Corner(data, idx) == <<Read(data, idx), Read(data, Add(idx, 1)), Read(data, Add(idx, 2))>>

\* f - f0
Fraction(f, f0) == IF IsNaN(f) THEN NaN ELSE f - f0 * U

\* The eight corners of the cell at (r0, g0, b0) blended by dr, dg and db.
Interpolate(size, data, r0, g0, b0, dr, dg, db) ==
    LET r1 == Add(r0, 1)
        g1 == Add(g0, 1)
        b1 == Add(b0, 1)
        c000 == Corner(data, getIdx(size, r0, g0, b0))
        c100 == Corner(data, getIdx(size, r1, g0, b0))
        c010 == Corner(data, getIdx(size, r0, g1, b0))
        c110 == Corner(data, getIdx(size, r1, g1, b0))
        c001 == Corner(data, getIdx(size, r0, g0, b1))
        c101 == Corner(data, getIdx(size, r1, g0, b1))
        c011 == Corner(data, getIdx(size, r0, g1, b1))
        c111 == Corner(data, getIdx(size, r1, g1, b1))
        x0 == Lerp3(c000, c100, dr)
        x1 == Lerp3(c010, c110, dr)
        x2 == Lerp3(c001, c101, dr)
        x3 == Lerp3(c011, c111, dr)
        y0 == Lerp3(x0, x1, dg)
        y1 == Lerp3(x2, x3, dg)
    IN  Lerp3(y0, y1, db)

\* sampleLUT from the grid coordinates fr, fg and fb on.
SampleAt(size, data, fr, fg, fb) ==
    Interpolate(size, data, Floor(fr), Floor(fg), Floor(fb),
                Fraction(fr, Floor(fr)), Fraction(fg, Floor(fg)), Fraction(fb, Floor(fb)))

sampleLUT(lutData, r, g, b) ==
    SampleAt(lutData.size, lutData.data,
             GridCoordinate(lutData.size, r),
             GridCoordinate(lutData.size, g),
             GridCoordinate(lutData.size, b))

\* One axis of sampleLUT: the coordinate, the two lattice indices and the
\* fractional offset (fr, r0, r1 and dr on the red axis).
Axis(size, x) ==
    LET f == GridCoordinate(size, x)
    IN  [f |-> f, lower |-> Floor(f), upper |-> Add(Floor(f), 1), offset |-> Fraction(f, Floor(f))]

\* The indices getIdx yields for the eight corners, c000 to c111 in the
\* order the code reads them.
CornerIndices(size, red, green, blue) ==
    <<getIdx(size, red.lower, green.lower, blue.lower),
      getIdx(size, red.upper, green.lower, blue.lower),
      getIdx(size, red.lower, green.upper, blue.lower),
      getIdx(size, red.upper, green.upper, blue.lower),
      getIdx(size, red.lower, green.lower, blue.upper),
      getIdx(size, red.upper, green.lower, blue.upper),
      getIdx(size, red.lower, green.upper, blue.upper),
      getIdx(size, red.upper, green.upper, blue.upper)>>

\* The local variables of a call sampleLUT(lutData, r, g, b).
SampleLocals(lutData, r, g, b) ==
    LET red == Axis(lutData.size, r)
        green == Axis(lutData.size, g)
        blue == Axis(lutData.size, b)
    IN  [red |-> red, green |-> green, blue |-> blue,
         corners |-> CornerIndices(lutData.size, red, green, blue)]

\* The size of the merged LUT.
MergedSize == 32

\* One pass of the loop over the chain: the item's LUT is looked up in the
\* library and sampled at colour at, and curr is blended with the result.
ApplyItem(st, item, curr, at) ==
    Lerp3(curr, sampleLUT(FindLUT(st.lutLibrary, item.lutId)[1].data, at[1], at[2], at[3]),
          item.intensity)

RECURSIVE ApplyChainSamplingOriginal(_, _, _, _)
ApplyChainSamplingOriginal(st, i, curr, orig) ==
    IF i > Len(st.activeChain) THEN curr
    ELSE ApplyChainSamplingOriginal(st, i + 1, ApplyItem(st, st.activeChain[i], curr, orig), orig)

\* The loop over the chain for one grid point, from item i on.
RECURSIVE ApplyChainFrom(_, _, _)
ApplyChainFrom(st, i, curr) ==
    IF i > Len(st.activeChain) THEN curr
    ELSE ApplyChainFrom(st, i + 1, ApplyItem(st, st.activeChain[i], curr, curr))

\* ApplyChain giving every stage the colour of the grid point.
ApplyChainToOriginal(st, curr) == ApplyChainSamplingOriginal(st, 1, curr, curr)

ApplyChain(st, curr) == ApplyChainFrom(st, 1, curr)

\* r / (size - 1)
GridColour(r, g, b) ==
    <<(r * U) \div (MergedSize - 1), (g * U) \div (MergedSize - 1), (b * U) \div (MergedSize - 1)>>

\* The cell of mergedData that the loop body writes: idx / 4.
MergedCell(r, g, b) == r + g * MergedSize + b * MergedSize * MergedSize

\* mergedData is kept by cells, cell k holding mergedData[4k .. 4k+3], and
\* the cells in blocks of MergedSize blocks of MergedSize cells: cell k is
\* CellAt(cells, k).
Cells(v) == [p \in 1..MergedSize |-> [q \in 1..MergedSize |-> [x \in 1..MergedSize |-> v]]]

CellAt(cells, k) ==
    cells[(k \div (MergedSize * MergedSize)) + 1][((k \div MergedSize) % MergedSize) + 1]
         [(k % MergedSize) + 1]

\* No export has run.
ExportIdle == [pc |-> "idle", r |-> 0, g |-> 0, mergedData |-> <<>>, writes |-> <<>>,
               download |-> <<>>]

\* exportMergedLUT up to its loops: nothing to do on an empty chain,
\* otherwise mergedData is allocated (a Float32Array starts as zeros).
\* writes counts, per cell, the stores into it.
ExportBegin ==
    /\ export.pc \in {"idle", "done"}
    /\ IF Len(state.activeChain) = 0
           THEN export' = ExportIdle
       ELSE export' = [pc |-> "loop", r |-> 0, g |-> 0,
                       mergedData |-> Cells(<<0, 0, 0, 0>>),
                       writes |-> Cells(0),
                       download |-> <<>>]
    /\ report' = ""
    /\ UNCHANGED <<state, renderer, uuids, uploads, loads, codec>>

\* seq with v at position i.
Replace(seq, i, v) == SubSeq(seq, 1, i - 1) \o <<v>> \o SubSeq(seq, i + 1, Len(seq))

\* cells with v as cell k.
Put(cells, k, v) ==
    LET p == (k \div (MergedSize * MergedSize)) + 1
        q == ((k \div MergedSize) % MergedSize) + 1
        x == (k % MergedSize) + 1
    IN  Replace(cells, p, Replace(cells[p], q, Replace(cells[p][q], x, v)))

\* mergedData[idx .. idx + 3] = curr and 1.0, idx being 4k.
Store(grid, k, curr) ==
    [mergedData |-> Put(grid.mergedData, k,
                        <<Fround(curr[1]), Fround(curr[2]), Fround(curr[3]), U>>),
     writes |-> Put(grid.writes, k, CellAt(grid.writes, k) + 1)]

\* The innermost loop, over b from b0 on, at (r, g): each pass folds the
\* chain over its grid colour and stores the result at idx. (The set of one
\* element has each store computed before the next pass starts.)
RECURSIVE ExportInnerLoop(_, _, _, _, _)
ExportInnerLoop(st, grid, r, g, b0) ==
    IF b0 = MergedSize THEN grid
    ELSE CHOOSE after \in
             {ExportInnerLoop(st, stored, r, g, b0 + 1) :
                 stored \in {Store(grid, MergedCell(r, g, b0),
                                   ApplyChain(st, GridColour(r, g, b0)))}} : TRUE

\* The export with the grid a pass has left and the counters r and g stepped.
AfterPass(ex, grid) ==
    LET last == MergedSize - 1
    IN  [ex EXCEPT
            !.mergedData = grid.mergedData,
            !.writes = grid.writes,
            !.g = IF @ = last THEN 0 ELSE @ + 1,
            !.r = IF ex.g = last THEN @ + 1 ELSE @,
            !.pc = IF ex.g = last /\ ex.r = last THEN "write" ELSE "loop"]

\* One pass of the body of the loop over g, which is the whole loop over b,
\* and the step of the counters r and g. The first pass over a chain with a
\* LUT missing from the library ends the export with a TypeError.
ExportPass ==
    /\ export.pc = "loop"
    /\ IF ChainThrows(state)
           THEN /\ export' = ExportIdle
                /\ report' = "TypeError"
       ELSE /\ export' = AfterPass(export,
                               ExportInnerLoop(state,
                                   [mergedData |-> export.mergedData, writes |-> export.writes],
                                   export.r, export.g, 0))
            /\ report' = ""
    /\ UNCHANGED <<state, renderer, uuids, uploads, loads, codec>>

\* mergedData as the flat array it is.
Flat(cells) ==
    [i \in 1..(4 * MergedSize * MergedSize * MergedSize) |->
        CellAt(cells, (i - 1) \div 4)[((i - 1) % 4) + 1]]

\* After the loops: the CUBE text is generated and downloaded.
ExportDownload ==
    /\ export.pc = "write"
    /\ export' = [export EXCEPT
           !.pc = "done",
           !.download = generateCubeLUT(MergedSize, Flat(export.mergedData), <<"Merged", "LUT">>)]
    /\ report' = ""
    /\ UNCHANGED <<state, renderer, uuids, uploads, loads, codec>>

(***************************************************************************)
(* The application: every handler the user can trigger                     *)
(***************************************************************************)
vars == <<state, renderer, uuids, uploads, loads, report, codec, export>>

CodecIdle == [pc |-> "idle"]

Init ==
    /\ AppInit
    /\ codec = CodecIdle
    /\ export = ExportIdle

\* Bounds of the exploration: ids that uuidv4 hands out to library entries
\* and to chain entries, handleLUTUpload calls in flight and files per call,
\* photos ever added and image loads in flight.
MaxLutIds == 2
MaxChainIds == 3
MaxUploads == 1
MaxUploadFiles == 2
MaxPhotoIds == 1
MaxLoads == 1

UploadFiles == {FileIdentity, FileShort}

\* renderChain gives a chain item a card (with its remove button and its
\* intensity bar) only when its LUT is in the library.
HasCard(item) == FindLUT(state.lutLibrary, item.lutId) # <<>>

\* The chain items whose remove button can be clicked.
Removable == {i \in 1..Len(state.activeChain) : HasCard(state.activeChain[i])}

\* The chain ids a pointer handler can hold: those of items that had a card,
\* still in the chain or not.
Draggable ==
    {id \in 1..uuids.chain :
        \A i \in 1..Len(state.activeChain) :
            state.activeChain[i].id = id => HasCard(state.activeChain[i])}

Next ==
    \/ \E files \in SeqsUpTo(UploadFiles, MaxUploadFiles) \ {<<>>} :
           /\ Len(uploads) < MaxUploads
           /\ uuids.lut + PendingImports + Importable(files) <= MaxLutIds
           /\ HandleLUTUpload(files)
           /\ UNCHANGED <<codec, export>>
    \/ \E h \in 1..Len(uploads) : UploadFile(h) /\ UNCHANGED <<codec, export>>
    \/ \E i \in 1..Len(state.lutLibrary) :
           RemoveLUTFromLibrary(state.lutLibrary[i].id) /\ UNCHANGED <<codec, export>>
    \/ \E lutId \in 1..uuids.lut :
           /\ uuids.chain < MaxChainIds \/ Len(state.activeChain) >= ChainCapacity
           /\ AddToChain(lutId)
           /\ UNCHANGED <<codec, export>>
    \/ \E i \in Removable : RemoveFromChain(state.activeChain[i].id) /\ UNCHANGED <<codec, export>>
    \/ \E chainId \in Draggable, x \in IntensityRequests :
           UpdateIntensity(chainId, x) /\ UNCHANGED <<codec, export>>
    \/ \E n \in 1..MaxPhotoIds :
           /\ uuids.photo + n <= MaxPhotoIds
           /\ Len(loads) < MaxLoads
           /\ ProcessPhotos(n)
           /\ UNCHANGED <<codec, export>>
    \/ \E index \in 0..(Len(state.photos) - 1) :
           Len(loads) < MaxLoads /\ SelectPhoto(index) /\ UNCHANGED <<codec, export>>
    \/ \E k \in 1..Len(loads) : SetImageLoaded(k) /\ UNCHANGED <<codec, export>>
    \/ \E k \in 1..Len(loads) : SetImageLost(k) /\ UNCHANGED <<codec, export>>
    \/ \E id \in 1..uuids.photo :
           /\ Len(loads) < MaxLoads \/ Len(state.photos) <= 1
           /\ RemovePhoto(id)
           /\ UNCHANGED <<codec, export>>

Spec == Init /\ [][Next]_vars

(***************************************************************************)
(* The chain on its own: one LUT in the library, chain ids enough to go    *)
(* past the capacity.                                                      *)
(***************************************************************************)
MaxChainAdds == 6

NextChain ==
    \/ /\ uuids.lut = 0
       /\ uploads = <<>>
       /\ HandleLUTUpload(<<FileIdentity>>)
       /\ UNCHANGED <<codec, export>>
    \/ \E h \in 1..Len(uploads) : UploadFile(h) /\ UNCHANGED <<codec, export>>
    \/ \E i \in 1..Len(state.lutLibrary) :
           RemoveLUTFromLibrary(state.lutLibrary[i].id) /\ UNCHANGED <<codec, export>>
    \/ \E lutId \in 1..uuids.lut :
           /\ uuids.chain < MaxChainAdds \/ Len(state.activeChain) >= ChainCapacity
           /\ AddToChain(lutId)
           /\ UNCHANGED <<codec, export>>
    \/ \E i \in Removable : RemoveFromChain(state.activeChain[i].id) /\ UNCHANGED <<codec, export>>
    \/ \E chainId \in Draggable, x \in IntensityRequests :
           UpdateIntensity(chainId, x) /\ UNCHANGED <<codec, export>>

SpecChain == Init /\ [][NextChain]_vars

(***************************************************************************)
(* Properties of the chain, the cache and the library                      *)
(***************************************************************************)
LibraryIds == {state.lutLibrary[i].id : i \in 1..Len(state.lutLibrary)}

CachedTextures == {renderer.textureCache[id].tex : id \in DOMAIN renderer.textureCache}

\* C1: addToChain on a chain of 5 entries reports the condition and leaves
\* the chain as it is, and no step ever leaves more than 5 entries in the
\* active chain.
C1_ChainCapacity ==
    [][/\ Len(state'.activeChain) <= 5
       /\ \A lutId \in 1..uuids.lut :
              (Len(state.activeChain) = 5 /\ AddToChain(lutId))
                  => (state'.activeChain = state.activeChain /\ report' = "alert")]_vars

\* A sixth add has just been rejected on a full chain.
C1_Witness == Len(state.activeChain) = 5 /\ report = "alert"

\* C2: a step never replaces the texture cached for an id; an id leaves the
\* cache only when its texture is disposed with its LUT leaving the library;
\* a texture is constructed exactly for the ids that enter the cache.
C2_CacheGetOrCreate ==
    [][LET c == renderer.textureCache
           d == renderer'.textureCache
       IN  /\ \A id \in DOMAIN c :
                  IF id \in DOMAIN d
                      THEN d[id] = c[id]
                  ELSE /\ c[id].tex \in renderer'.disposed
                       /\ FindLUT(state.lutLibrary, id) # <<>>
                       /\ FindLUT(state'.lutLibrary, id) = <<>>
           /\ renderer'.created = renderer.created + Cardinality(DOMAIN d \ DOMAIN c)
           /\ \A id \in DOMAIN d \ DOMAIN c : d[id].tex > renderer.created]_vars

\* The chain has been through the renderer without the cached LUT 1, whose
\* texture is still the first one constructed, next to a later one.
C2_Witness ==
    /\ DOMAIN renderer.textureCache = {1, 2}
    /\ renderer.textureCache[1].tex = 1
    /\ report = ""
    /\ state.activeChain # <<>>
    /\ \A i \in 1..Len(state.activeChain) : state.activeChain[i].lutId = 2

\* C3: every id in the texture cache is the id of a LUT in the library, and
\* every texture ever constructed is either cached or disposed.
C3_CacheWithinLibrary ==
    /\ DOMAIN renderer.textureCache \subseteq LibraryIds
    /\ CachedTextures \cap renderer.disposed = {}
    /\ CachedTextures \cup renderer.disposed = 1..renderer.created

\* A cached LUT has been removed from the library while a photo was shown
\* and another LUT is cached and in the chain.
C3_Witness ==
    /\ renderer.disposed # {}
    /\ renderer.baseTexture # 0
    /\ DOMAIN renderer.textureCache # {}
    /\ state.activeChain # <<>>

\* C4: the removal of a LUT from the library disposes the texture cached
\* for it, takes exactly that entry out of the cache and leaves every other
\* entry as it was; with no entry cached for it nothing changes in the cache
\* and nothing is disposed.
C4_DisposeFrame ==
    [][\A id \in LibraryIds :
           FindLUT(state'.lutLibrary, id) = <<>>
               => LET c == renderer.textureCache
                      d == renderer'.textureCache
                  IN  IF id \in DOMAIN c
                          THEN /\ DOMAIN d = DOMAIN c \ {id}
                               /\ \A j \in DOMAIN d : d[j] = c[j]
                               /\ renderer'.disposed = renderer.disposed \cup {c[id].tex}
                      ELSE /\ d = c
                           /\ renderer'.disposed = renderer.disposed]_vars

\* The texture of LUT 2 has been disposed and the older entry of LUT 1 is
\* still cached.
C4_Witness ==
    /\ 2 \in renderer.disposed
    /\ 1 \in DOMAIN renderer.textureCache
    /\ renderer.textureCache[1].tex = 1

\* C5: a file that fails to parse changes neither the library nor the chain
\* nor any Document, is reported, and leaves the files after it in the same
\* upload pending.
C5_FailedImportAtomic ==
    [][\A h \in 1..Len(uploads) :
           (UploadFile(h) /\ ~parseCubeLUT(Head(uploads[h]).content).ok)
               => /\ state' = state
                  /\ renderer' = renderer
                  /\ report' = "console.error"
                  /\ uploads' = PopHead(uploads, h)]_vars

\* A file has just failed with a LUT already in the library and the next
\* file of the same upload still to come.
C5_Witness ==
    /\ report = "console.error"
    /\ state.lutLibrary # <<>>
    /\ uploads # <<>>

\* C7: a chain entry is created with intensity 1.0, updateIntensity stores
\* the request clamped to [0,1] in the entry it names and changes nothing
\* when no entry has that id, and every entry's intensity is in [0,1].
C7_IntensityClamped ==
    [][/\ \A i \in 1..Len(state'.activeChain) :
              LET item == state'.activeChain[i]
              IN  /\ item.intensity >= 0
                  /\ item.intensity <= U
                  /\ item.id > uuids.chain => item.intensity = U
       /\ \A chainId \in 1..uuids.chain, x \in IntensityRequests :
              UpdateIntensity(chainId, x)
                  => IF \E i \in 1..Len(state.activeChain) : state.activeChain[i].id = chainId
                         THEN /\ Len(state'.activeChain) = Len(state.activeChain)
                              /\ \A i \in 1..Len(state.activeChain) :
                                     LET old == state.activeChain[i]
                                         new == state'.activeChain[i]
                                     IN  IF old.id = chainId
                                             THEN new = [old EXCEPT !.intensity =
                                                            IF x < 0 THEN 0
                                                            ELSE IF x > U THEN U ELSE x]
                                         ELSE new = old
                     ELSE state' = state /\ renderer' = renderer]_vars

\* Requests below 0 and inside (0,1) have been stored in two entries.
C7_Witness ==
    \E i, j \in 1..Len(state.activeChain) :
        /\ state.activeChain[i].intensity = 0
        /\ state.activeChain[j].intensity = U \div 2

\* C15: after any sequence of imports, addToChain (a drop of a LUT id
\* captured before the LUT was removed included), removeFromChain and
\* removeLUTFromLibrary, every entry of the active chain references a LUT
\* that is in the library, and updateRendererChain has not dereferenced a
\* missing library entry.
C15_ChainIntegrity ==
    /\ \A i \in 1..Len(state.activeChain) :
           state.activeChain[i].lutId \in LibraryIds
    /\ report # "TypeError"

(***************************************************************************)
(* The photos on their own: selections and removals while image loads are  *)
(* pending.                                                                *)
(***************************************************************************)
\* Photos ever added and image loads pending at once.
MaxRacePhotos == 3
MaxRaceLoads == 2

NextPhotos ==
    \/ \E n \in 1..MaxRacePhotos :
           /\ uuids.photo + n <= MaxRacePhotos
           /\ Len(loads) < MaxRaceLoads
           /\ ProcessPhotos(n)
           /\ UNCHANGED <<codec, export>>
    \/ \E index \in 0..(Len(state.photos) - 1) :
           Len(loads) < MaxRaceLoads /\ SelectPhoto(index) /\ UNCHANGED <<codec, export>>
    \/ \E k \in 1..Len(loads) : SetImageLoaded(k) /\ UNCHANGED <<codec, export>>
    \/ \E k \in 1..Len(loads) : SetImageLost(k) /\ UNCHANGED <<codec, export>>
    \/ \E id \in 1..uuids.photo :
           /\ Len(loads) < MaxRaceLoads \/ Len(state.photos) <= 1
           /\ RemovePhoto(id)
           /\ UNCHANGED <<codec, export>>

SpecPhotos == Init /\ [][NextPhotos]_vars

\* C16: currentPhotoIndex is -1 or a valid index into the photo list, and
\* once no image load is pending the renderer's base texture is the image of
\* the photo at currentPhotoIndex, whatever the order in which the loads of
\* overlapping selectPhoto calls completed.
C16_SelectionSettles ==
    /\ state.currentPhotoIndex = 0 - 1
           \/ state.currentPhotoIndex \in 0..(Len(state.photos) - 1)
    /\ (loads = <<>> /\ state.currentPhotoIndex # 0 - 1)
           => renderer.baseTexture = state.photos[state.currentPhotoIndex + 1].url

(***************************************************************************)
(* The codec on its own: parseCubeLUT on uploaded text                     *)
(***************************************************************************)
\* Data rows per file.
MaxRows == 65

\* The argument of the LUT_3D_SIZE line, with the integer parseInt reads in
\* it: no line at all, no argument, a word, and numerals.
SizeArgs ==
    {[line |-> "none", args |-> <<>>, int |-> 0],
     [line |-> "LUT_3D_SIZE", args |-> <<>>, int |-> NaN],
     [line |-> "LUT_3D_SIZE", args |-> <<Word("abc")>>, int |-> NaN],
     [line |-> "LUT_3D_SIZE", args |-> <<Num(0 - U)>>, int |-> 0 - 1],
     [line |-> "LUT_3D_SIZE", args |-> <<Num(0)>>, int |-> 0],
     [line |-> "LUT_3D_SIZE", args |-> <<Num(U)>>, int |-> 1],
     [line |-> "lut_3d_size", args |-> <<Num(2 * U)>>, int |-> 2],
     [line |-> "LUT_3D_SIZE", args |-> <<Num(2 * U + U \div 2)>>, int |-> 2],
     [line |-> "LUT_3D_SIZE", args |-> <<Num(3 * U)>>, int |-> 3],
     [line |-> "LUT_3D_SIZE", args |-> <<Num(4 * U)>>, int |-> 4]}

\* How many values a data row carries.
RowShapes == {1, 3, 4}

\* Where the LUT_3D_SIZE line stands: in a header before the rows, or alone
\* after them.
Layouts == {"header", "trailer"}

\* The value in column c of data row i (0-based).
RowValue(i, c) == ((7 * i + 3 * c) % 11) * (U \div 10)

DataRow(i, shape) == [c \in 1..shape |-> Num(RowValue(i, c - 1))]

CubeFile(p) ==
    LET sizeLine == IF p.size.line = "none" THEN <<>>
                    ELSE << <<Word(p.size.line)>> \o p.size.args >>
        rows == [i \in 1..p.rows |-> DataRow(i - 1, p.shape)]
    IN  IF p.layout = "header"
            THEN << <<Word("#"), Word("comment")>>,
                    <<Word("TITLE"), Word("Some"), Word("title")>> >>
                 \o sizeLine
                 \o << <<Word("DOMAIN_MIN"), Num(0), Num(0), Num(0)>>,
                       <<Word("LUT_1D_SIZE"), Num(4 * U)>>,
                       <<>> >>
                 \o rows
        ELSE rows \o sizeLine

CodecState(pc, params, content, doc, result) ==
    [pc |-> pc, params |-> params, content |-> content, doc |-> doc, result |-> result]

NoParams == [size |-> [line |-> "none", args |-> <<>>, int |-> 0], rows |-> 0, shape |-> 3,
             layout |-> "header"]

NoResult == ParseResult(FALSE, "", 0, 0, 0, NoDocument)

InitParse ==
    /\ AppInit
    /\ export = ExportIdle
    /\ \E size \in SizeArgs, rows \in 0..MaxRows, shape \in RowShapes, layout \in Layouts :
           LET p == [size |-> size, rows |-> rows, shape |-> shape, layout |-> layout]
           IN  codec = CodecState("text", p, CubeFile(p), NoDocument, NoResult)

\* A call parseCubeLUT(fileContent).
ParseCall ==
    /\ codec.pc = "text"
    /\ codec' = [codec EXCEPT !.pc = "parsed", !.result = parseCubeLUT(codec.content)]
    /\ UNCHANGED <<appVars, export>>

NextParse == ParseCall

SpecParse == InitParse /\ [][NextParse]_vars

C10_SizeAtLeastTwo ==
    (codec.pc = "parsed" /\ codec.result.ok) => codec.result.doc.size >= 2

\* C14: parseCubeLUT returns a Document only when the number of data rows
\* equals size^3, and then sample i of the Document is the first three values
\* of data row i followed by alpha 1.0; LUT_3D_SIZE 4 with 48 data rows
\* yields no Document.
C14_CompleteGrid ==
    (codec.pc = "parsed" /\ codec.params.size.line # "none")
        => LET size == codec.params.size.int
               rows == codec.params.rows
               data == codec.result.doc.data
           IN  /\ codec.result.ok
                      => /\ rows = size * size * size
                         /\ Len(data) = 4 * rows
                         /\ codec.params.shape >= 3
                                => \A i \in 0..(rows - 1) :
                                       /\ \A c \in 0..2 :
                                              data[4 * i + c + 1] = Fround(RowValue(i, c))
                                       /\ data[4 * i + 4] = U
               /\ (size = 4 /\ rows = 48) => ~codec.result.ok

(***************************************************************************)
(* The codec on its own: serialize, then parse                             *)
(***************************************************************************)
\* Sizes of the Documents serialized.
MaxRoundTripSize == 2

\* Float32 values around the sixth decimal, at 1.0 and where the float32
\* spacing is 2, 8 and 16 units.
RoundTripValues ==
    <<0, 4, 5, 0 - 5, 9999995, U, 16777218, 100000024, 0 - 150000016>>

\* The 1e-6 of the round-trip tolerance.
Tolerance == U \div 1000000

\* The Document whose sample i holds the values at a + i, b + i and c + 2i
\* of RoundTripValues.
RoundTripDoc(size, a, b, c, alpha) ==
    [title |-> <<>>, size |-> size, min |-> <<0, 0, 0>>, max |-> <<U, U, U>>,
     data |-> [k \in 1..(size * size * size * 4) |->
                  LET i == (k - 1) \div 4
                      ch == (k - 1) % 4
                      n == Len(RoundTripValues)
                  IN  IF ch = 0 THEN RoundTripValues[((a + i) % n) + 1]
                      ELSE IF ch = 1 THEN RoundTripValues[((b + i) % n) + 1]
                      ELSE IF ch = 2 THEN RoundTripValues[((c + 2 * i) % n) + 1]
                      ELSE alpha]]

InitRoundTrip ==
    /\ AppInit
    /\ export = ExportIdle
    /\ \E size \in 1..MaxRoundTripSize, a, b, c \in 0..(Len(RoundTripValues) - 1),
          alpha \in {U, U \div 2} :
           codec = CodecState("doc", NoParams, <<>>, RoundTripDoc(size, a, b, c, alpha),
                              NoResult)

\* A call generateCubeLUT(D.size, D.samples), with the default title.
SerializeCall ==
    /\ codec.pc = "doc"
    /\ codec' = [codec EXCEPT !.pc = "text",
                              !.content = generateCubeLUT(codec.doc.size, codec.doc.data,
                                                          <<"Merged", "LUT">>)]
    /\ UNCHANGED <<appVars, export>>

NextRoundTrip == SerializeCall \/ ParseCall

SpecRoundTrip == InitRoundTrip /\ [][NextRoundTrip]_vars

\* C9: parsing the serialization of a Document succeeds and yields the same
\* size and as many samples, in the same order, with RGB values within 1e-6
\* of the Document's.
C9_RoundTrip ==
    (codec.pc = "parsed" /\ codec.doc # NoDocument)
        => /\ codec.result.ok
           /\ codec.result.doc.size = codec.doc.size
           /\ Len(codec.result.doc.data) = Len(codec.doc.data)
           /\ \A k \in 1..Len(codec.doc.data) :
                  (k % 4 # 0) => Abs(codec.result.doc.data[k] - codec.doc.data[k]) <= Tolerance

\* A Document of size 2 has come back with a value that the six decimals
\* have moved.
C9_Witness ==
    /\ codec.pc = "parsed"
    /\ codec.doc.size = 2
    /\ codec.result.ok
    /\ \E k \in 1..Len(codec.doc.data) :
           k % 4 # 0 /\ codec.result.doc.data[k] # codec.doc.data[k]

(***************************************************************************)
(* exportMergedLUT on its own: the export button pressed on a library and  *)
(* a chain the application has built.                                      *)
(***************************************************************************)
\* The library after invert.cube, twist.cube and identity.cube were
\* imported and the third LUT was removed again.
ExportLibrary ==
    <<[id |-> 1, name |-> FileInvert.name, data |-> parseCubeLUT(FileInvert.content).doc],
      [id |-> 2, name |-> FileTwist.name, data |-> parseCubeLUT(FileTwist.content).doc]>>

ChainItem(id, lutId, intensity) == [id |-> id, lutId |-> lutId, intensity |-> intensity]

\* Chains the user has built, with the items the renderer was last given:
\* the last one ends with a drop of the removed LUT's card.
ExportChains ==
    {[chain |-> <<>>, rendered |-> 0],
     [chain |-> <<ChainItem(1, 2, U \div 2), ChainItem(2, 1, (3 * U) \div 4)>>, rendered |-> 2],
     [chain |-> <<ChainItem(1, 1, U), ChainItem(2, 3, U)>>, rendered |-> 1]}

InitExport ==
    /\ \E c \in ExportChains :
           /\ state = [photos |-> <<>>, currentPhotoIndex |-> 0 - 1,
                       lutLibrary |-> ExportLibrary, activeChain |-> c.chain]
           /\ renderer = updateLUTChain(
                  [textureCache |-> <<>>,
                   lutTextures |-> [i \in 1..5 |-> dummyTexture],
                   lutIntensities |-> [i \in 1..5 |-> 0],
                   lutCount |-> 0,
                   baseTexture |-> 0,
                   created |-> 0,
                   disposed |-> {}],
                  ChainData([lutLibrary |-> ExportLibrary,
                             activeChain |-> SubSeq(c.chain, 1, c.rendered)]))
           /\ uuids = [lut |-> 3, chain |-> Len(c.chain), photo |-> 0]
           /\ report = IF c.rendered < Len(c.chain) THEN "TypeError" ELSE ""
    /\ uploads = <<>>
    /\ loads = <<>>
    /\ codec = CodecIdle
    /\ export = ExportIdle

NextExport == ExportBegin \/ ExportPass \/ ExportDownload

SpecExport == InitExport /\ [][NextExport]_vars

\* One stage of the compositor: colour (1 - intensity) + sample(lut, colour)
\* intensity, channel by channel.
FoldStage(entry, colour) ==
    LET lut == CHOOSE l \in {state.lutLibrary[i] : i \in 1..Len(state.lutLibrary)} :
                   l.id = entry.lutId
    IN  Lerp3(colour, sampleLUT(lut.data, colour[1], colour[2], colour[3]), entry.intensity)

\* The chain compositor on colour c: the entries from n on, first to last,
\* each one sampling the colour it is handed.
RECURSIVE ChainFold(_, _, _)
ChainFold(chain, n, c) ==
    IF n > Len(chain) THEN c ELSE ChainFold(chain, n + 1, FoldStage(chain[n], c))

RGBA(c) == <<Fround(c[1]), Fround(c[2]), Fround(c[3]), U>>

\* What the grid holds at (r, g, b) when the claim is true.
FoldSample(r, g, b) ==
    RGBA(ChainFold(state.activeChain, 1, <<(r * U) \div 31, (g * U) \div 31, (b * U) \div 31>>))

\* The grid point of the store that ran last.
LastStored ==
    IF export.pc # "loop" THEN <<31, 31, 31>>
    ELSE IF export.g > 0 THEN <<export.r, export.g - 1, 31>>
    ELSE <<export.r - 1, 31, 31>>

\* C8: for a non-empty chain the export builds a grid of 32 x 32 x 32 RGBA
\* samples in which the sample at index r + 32 g + 1024 b is the chain fold
\* of the colour (r/31, g/31, b/31), every entry sampling the colour the
\* entry before it produced, with alpha 1, and every sample written once.
\* While the loops run this holds of the sample stored last; when the
\* export is done it holds of every sample, and the download is the grid as
\* CUBE text. An export stops short of its grid only on a chain one of whose
\* LUTs is missing from the library.
C8_MergedExportIsChainFold ==
    /\ export.pc \in {"loop", "write", "done"} =>
           /\ Len(state.activeChain) > 0
           /\ Len(export.mergedData) * Len(export.mergedData[1]) * Len(export.mergedData[1][1])
                  = 32 * 32 * 32
           /\ \/ export.pc = "loop" /\ export.r = 0 /\ export.g = 0
              \/ LET p == LastStored
                     idx == p[1] + p[2] * 32 + p[3] * 32 * 32
                 IN  /\ CellAt(export.mergedData, idx) = FoldSample(p[1], p[2], p[3])
                     /\ CellAt(export.writes, idx) = 1
    /\ export.pc = "done" =>
           /\ \A r \in 0..31, g \in 0..31, b \in 0..31 :
                  LET idx == r + g * 32 + b * 32 * 32
                  IN  /\ CellAt(export.mergedData, idx) = FoldSample(r, g, b)
                      /\ CellAt(export.writes, idx) = 1
           /\ Len(export.download) = 3 + 3 + 32 * 32 * 32 + 1
    /\ (export.pc = "idle" /\ report = "TypeError" /\ Len(state.activeChain) > 0) =>
           ChainThrows(state)

\* The export of a chain of two entries over two LUTs, with intensities
\* 0.5 and 0.75, has been through its first pass: the sample of the grid
\* point (0, 0, 31) is stored, it is the fold of the chain, and it is what
\* neither the first entry alone nor the second entry alone gives.
C8_Witness ==
    /\ export.pc = "loop"
    /\ export.r = 0
    /\ export.g = 1
    /\ Len(state.activeChain) = 2
    /\ state.activeChain[1].lutId # state.activeChain[2].lutId
    /\ state.activeChain[1].intensity = U \div 2
    /\ state.activeChain[2].intensity = (3 * U) \div 4
    /\ CellAt(export.writes, 31 * 32 * 32) = 1
    /\ CellAt(export.mergedData, 31 * 32 * 32) = FoldSample(0, 0, 31)
    /\ CellAt(export.mergedData, 31 * 32 * 32) # RGBA(FoldStage(state.activeChain[1], <<0, 0, U>>))
    /\ CellAt(export.mergedData, 31 * 32 * 32) # RGBA(FoldStage(state.activeChain[2], <<0, 0, U>>))
    /\ CellAt(export.mergedData, 31 * 32 * 32) # <<0, 0, U, U>>

(***************************************************************************)
(* sampleLUT on its own: a Document the codec has parsed, sampled at a     *)
(* colour and then again with red a little lower.                          *)
(***************************************************************************)
\* Sizes of the Documents sampled.
MaxSampleSize == 4

\* Row i (0-based) of a LUT that mixes the channels, for any size.
SampleRow(size, i) ==
    LET r == i % size
        g == (i \div size) % size
        b == i \div (size * size)
        d == Max(1, size - 1)
    IN  <<Num(((2 * r + 3 * g + 5 * b) * U) \div (10 * d)),
          Num(((10 * d - 5 * r + 3 * g + 2 * b) * U) \div (20 * d)),
          Num(((4 * r * d + 6 * g * b) * U) \div (10 * d * d))>>

SampleFile(size) ==
    <<SizeLine(size)>> \o [i \in 1..(size * size * size) |-> SampleRow(size, i - 1)]

\* The Documents of each size, as parseCubeLUT returns them.
SampleDocuments == [size \in 1..MaxSampleSize |-> parseCubeLUT(SampleFile(size)).doc]

\* Colour components queried: below 0, inside, at 1.0 and above 1.
SampleQueries == {0 - (U \div 2), 0, U \div 3, U - 1, U, 2 * U}

\* How far below the first query the second one lies on the red axis:
\* around the sampler's 1e-4 (1000 units).
SampleSteps == {1, 300, 500, 999, 1000}

\* The 1e-4 of the sampler's clamp.
SamplerEpsilon == U \div 10000

SamplerState(pc, doc, query, step, locals, result, near) ==
    [pc |-> pc, doc |-> doc, query |-> query, step |-> step, locals |-> locals,
     result |-> result, near |-> near]

InitSample ==
    /\ AppInit
    /\ export = ExportIdle
    /\ \E size \in 1..MaxSampleSize, r \in SampleQueries, g \in SampleQueries,
          b \in {0 - (U \div 2), U \div 3, U, 2 * U}, step \in SampleSteps :
           codec = SamplerState("query", SampleDocuments[size], <<r, g, b>>, step,
                                <<>>, <<>>, <<>>)

\* A call sampleLUT(doc, r, g, b).
SampleCall ==
    /\ codec.pc = "query"
    /\ codec' = [codec EXCEPT
                    !.pc = "sampled",
                    !.locals = SampleLocals(codec.doc, codec.query[1], codec.query[2],
                                            codec.query[3]),
                    !.result = sampleLUT(codec.doc, codec.query[1], codec.query[2],
                                         codec.query[3])]
    /\ UNCHANGED <<appVars, export>>

\* A second call, sampleLUT(doc, r - step, g, b).
SampleNear ==
    /\ codec.pc = "sampled"
    /\ codec' = [codec EXCEPT
                    !.pc = "compared",
                    !.near = sampleLUT(codec.doc, codec.query[1] - codec.step,
                                       codec.query[2], codec.query[3])]
    /\ UNCHANGED <<appVars, export>>

NextSample == SampleCall \/ SampleNear

SpecSample == InitSample /\ [][NextSample]_vars

\* C11 as stated: for a Document of size 2 or more, sampleLUT at r = 1.0
\* returns what sampleLUT returns at r = 1.0 - e, g and b the same, for every
\* e above 0 and below 1e-4.
C11_AsStated ==
    (/\ codec.pc = "compared"
     /\ codec.doc.size >= 2
     /\ codec.query[1] = U
     /\ codec.step > 0
     /\ codec.step < SamplerEpsilon)
        => codec.near = codec.result

\* C11 amended: for a Document of size 2 or more, sampleLUT at r = 1.0
\* returns what sampleLUT returns at r = 1.0 - e, g and b the same, for every
\* e above 0 whose grid coordinate (1.0 - e) * (size - 1) is not below the
\* clamp size - 1.0001: the margin of the clamp is 1e-4 of a grid step, which
\* is 1e-4 / (size - 1) of the colour range.
C11_ClampEquality ==
    (/\ codec.pc = "compared"
     /\ codec.doc.size >= 2
     /\ codec.query[1] = U
     /\ codec.step > 0
     /\ (U - codec.step) * (codec.doc.size - 1) >= codec.doc.size * U - U - SamplerEpsilon)
        => /\ codec.near = codec.result
           /\ \A c \in 1..3 : ~IsNaN(codec.result[c])
           /\ codec.locals.red.f = codec.doc.size * U - U - SamplerEpsilon

\* A Document of size 3 sampled at r = 1.0 and at r = 1.0 - 0.00005, with
\* g and b inside the range: both calls return the same colour, which is not
\* the colour at the last lattice point.
C11_Witness ==
    /\ codec.pc = "compared"
    /\ codec.doc.size = 3
    /\ codec.query = <<U, U \div 3, U \div 3>>
    /\ codec.step = 500
    /\ codec.near = codec.result
    /\ \A c \in 1..3 : ~IsNaN(codec.result[c])
    /\ codec.result # sampleLUT(codec.doc, U - 2 * SamplerEpsilon, U \div 3, U \div 3)

\* The three axes of the recorded call.
SampledAxes == {codec.locals.red, codec.locals.green, codec.locals.blue}

\* C13: for a Document of size 2 or more and any finite query, below 0 and
\* above 1 included, the lattice indices of sampleLUT on each axis satisfy
\* 0 <= lower = upper - 1 and upper <= size - 1, the fractional offsets lie
\* in [0, 1), the eight corner reads (and the alpha next to them) fall inside
\* the size^3 x 4 values of the Document, and the call returns numbers: the
\* colour of the query saturated to [0, 1].
C13_IndexSafety ==
    (codec.pc \in {"sampled", "compared"} /\ codec.doc.size >= 2)
        => /\ Len(codec.doc.data) = codec.doc.size * codec.doc.size * codec.doc.size * 4
           /\ \A axis \in SampledAxes :
                  /\ 0 <= axis.lower
                  /\ axis.lower = axis.upper - 1
                  /\ axis.upper <= codec.doc.size - 1
                  /\ 0 <= axis.offset
                  /\ axis.offset < U
           /\ \A k \in 1..8 :
                  /\ 0 <= codec.locals.corners[k]
                  /\ codec.locals.corners[k] + 3 <= Len(codec.doc.data) - 1
           /\ \A c \in 1..3 : ~IsNaN(codec.result[c])
           /\ codec.result = sampleLUT(codec.doc, Min(U, Max(0, codec.query[1])),
                                       Min(U, Max(0, codec.query[2])),
                                       Min(U, Max(0, codec.query[3])))

\* A Document of size 4 sampled above 1 on red and blue and below 0 on
\* green: the cell is the last one on red and blue and the first on green.
C13_Witness ==
    /\ codec.pc = "sampled"
    /\ codec.doc.size = 4
    /\ codec.query = <<2 * U, 0 - (U \div 2), 2 * U>>
    /\ codec.locals.red.lower = 2
    /\ codec.locals.red.upper = 3
    /\ codec.locals.green.lower = 0
    /\ codec.locals.blue.upper = 3
    /\ codec.locals.corners[8] = (3 + 1 * 4 + 3 * 16) * 4
    /\ \A c \in 1..3 : ~IsNaN(codec.result[c])

(***************************************************************************)
(* updateLUTChain on its own: the renderer handed chains of any length     *)
(***************************************************************************)
\* The longest chain handed to updateLUTChain.
MaxHanded == 7

\* The Documents behind the entries handed: odd ids the identity, even ids
\* the inverting LUT.
HandedDocuments ==
    <<parseCubeLUT(FileIdentity.content).doc, parseCubeLUT(FileInvert.content).doc>>

\* Entry i (1-based) of a chain whose ids start after a and advance by s
\* (0: one LUT repeated), with intensities in [0, 1] that vary along it.
HandedEntry(i, a, s, c) ==
    LET id == ((a + i * s) % MaxHanded) + 1
        doc == HandedDocuments[2 - (id % 2)]
    IN  [id |-> id, data |-> doc.data, size |-> doc.size,
         intensity |-> ((3 * i + c) % 5) * (U \div 4)]

HandedChain(n, a, s, c) == [i \in 1..n |-> HandedEntry(i, a, s, c)]

\* The renderer as constructed, then handed the first `earlier` entries of
\* the chain in an earlier call.
InitCompositor ==
    /\ state = [photos |-> <<>>, currentPhotoIndex |-> 0 - 1,
                lutLibrary |-> <<>>, activeChain |-> <<>>]
    /\ \E n \in 0..MaxHanded, a \in 0..(MaxHanded - 1), s \in 0..2, c \in 0..4,
          earlier \in {0, 1, 6} :
           /\ codec = [pc |-> "handed", lutDatas |-> HandedChain(n, a, s, c)]
           /\ renderer = updateLUTChain(
                  [textureCache |-> <<>>,
                   lutTextures |-> [i \in 1..5 |-> dummyTexture],
                   lutIntensities |-> [i \in 1..5 |-> 0],
                   lutCount |-> 0,
                   baseTexture |-> 0,
                   created |-> 0,
                   disposed |-> {}],
                  SubSeq(HandedChain(n, a, s, c), 1, Min(n, earlier)))
    /\ uuids = [lut |-> 0, chain |-> 0, photo |-> 0]
    /\ uploads = <<>>
    /\ loads = <<>>
    /\ report = ""
    /\ export = ExportIdle

\* A call renderer.updateLUTChain(lutDatas).
UpdateLUTChainCall ==
    /\ codec.pc = "handed"
    /\ renderer' = updateLUTChain(renderer, codec.lutDatas)
    /\ codec' = [codec EXCEPT !.pc = "delivered"]
    /\ UNCHANGED <<state, uuids, uploads, loads, report, export>>

NextCompositor == UpdateLUTChainCall

SpecCompositor == InitCompositor /\ [][NextCompositor]_vars

\* The ids of the first k entries handed.
HandedIds(k) == {codec.lutDatas[i].id : i \in 1..Min(k, Len(codec.lutDatas))}

\* C12: handed a chain of any length n, longer than 5 included,
\* updateLUTChain delivers exactly 5 texture slots and 5 intensity slots with
\* lutCount = min(n, 5); slots 1..min(n, 5) hold the textures and intensities
\* of the first entries in chain order, every other slot holds the dummy
\* texture with intensity 0, and the entries past the fifth are not
\* evaluated: no texture is looked up or built for them.
C12_FiveStageBound ==
    [][(codec.pc = "handed" /\ codec'.pc = "delivered")
          => LET n == Len(codec.lutDatas)
                 k == Min(n, 5)
             IN  /\ Len(renderer'.lutTextures) = 5
                 /\ Len(renderer'.lutIntensities) = 5
                 /\ renderer'.lutCount = k
                 /\ \A i \in 1..k :
                        LET lut == codec.lutDatas[i]
                        IN  /\ lut.id \in DOMAIN renderer'.textureCache
                            /\ renderer'.lutTextures[i] = renderer'.textureCache[lut.id].tex
                            /\ renderer'.lutTextures[i] # dummyTexture
                            /\ renderer'.textureCache[lut.id].data = lut.data
                            /\ renderer'.lutIntensities[i] = lut.intensity
                 /\ \A i \in (k + 1)..5 :
                        /\ renderer'.lutTextures[i] = dummyTexture
                        /\ renderer'.lutIntensities[i] = 0
                 /\ DOMAIN renderer'.textureCache = DOMAIN renderer.textureCache \cup HandedIds(5)
                 /\ renderer'.created
                        = renderer.created
                          + Cardinality(HandedIds(5) \ DOMAIN renderer.textureCache)]_vars

\* Seven entries of seven LUTs have been handed: five slots are filled, in
\* chain order, and the sixth and seventh LUT have no texture.
C12_Witness ==
    /\ codec.pc = "delivered"
    /\ Len(codec.lutDatas) = 7
    /\ Cardinality(HandedIds(7)) = 7
    /\ renderer.lutCount = 5
    /\ renderer.created = 5
    /\ \A i \in 1..5 : renderer.lutTextures[i] = i
    /\ DOMAIN renderer.textureCache = HandedIds(5)

=============================================================================
